---------------------------- MODULE Spec2Model ----------------------------
(* Model of the two history-rewriting scripts rewrite_dates.py (Metadata   *)
(* Filter) and rewrite_history.py (Reconstruction), of the date generator  *)
(* and formatter they share, and of the part of git they drive.            *)
EXTENDS Integers, Sequences, FiniteSets, TLC

VARIABLES
    \* ---- generate_random_dates called on its own (SpecGen)
    gPc, gStart, gEnd, gCount, gDates,
    \* ---- create_env_filter_script called on its own (SpecScript)
    sPc, sHashes, sDates, sScript,
    \* ---- format_date_for_git called on its own (SpecFormat)
    fPc, fIn, fOut,
    \* ---- the repository a script runs in
    objects,      \* commit objects; the hash of objects[k] is HashOf(k)
    refs,         \* branch name -> commit index, 0 when the branch is absent
    head,         \* the branch HEAD names (it may be unborn)
    index,        \* the staged tree
    wt,           \* the files of the working directory
    stash,        \* the stash stack, newest entry first
    scriptFile,   \* the content of date_filter.sh, NoFile when absent
    ignoresScript,\* .gitignore matches date_filter.sh
    backupRefs,   \* refs under refs/original/, by branch name
    \* ---- the running script
    prog,         \* "dates" | "history"
    pc,           \* the next statement of the script
    commits,      \* commit_hashes / commits: the enumerated records
    new_dates,
    stashed,
    loop_i,       \* the index i of the for loop of rewrite_history_manually
    new_commit_hashes,
    result,       \* how main ended
    calls,        \* every step taken so far that touches or reports on the repository
    start         \* the repository and stash as they were when the run began

genVars    == <<gPc, gStart, gEnd, gCount, gDates>>
scriptVars == <<sPc, sHashes, sDates, sScript>>
formatVars == <<fPc, fIn, fOut>>
repoVars   == <<objects, refs, head, index, wt, stash, scriptFile, ignoresScript, backupRefs>>
localVars  == <<prog, pc, commits, new_dates, stashed, loop_i, new_commit_hashes, result, calls, start>>
vars       == <<genVars, scriptVars, formatVars, repoVars, localVars>>

-----------------------------------------------------------------------------
(* Bounds of the model *)

MaxCount == 3      \* the largest count given to generate_random_dates on its own
MaxCommits == 2    \* the longest original history

Min(a, b) == IF a < b THEN a ELSE b
Max(a, b) == IF a > b THEN a ELSE b

-----------------------------------------------------------------------------
(* datetime: a point in time is the number of seconds since 2025-01-01     *)
(* 00:00:00; a date string "%Y-%m-%d" is the tuple <<year, month, day>>.    *)

DaysInMonth == <<31, 28, 31, 30, 31, 30, 31, 31, 30, 31, 30, 31>>

RECURSIVE DaysBeforeMonth(_)
DaysBeforeMonth(m) == IF m <= 1 THEN 0 ELSE DaysBeforeMonth(m - 1) + DaysInMonth[m - 1]

\* datetime.strptime(s, "%Y-%m-%d"): midnight of that day
strptime(s) == (DaysBeforeMonth(s[2]) + s[3] - 1) * 86400

\* the calendar fields of a datetime
DayIndex(dt) == dt \div 86400
RECURSIVE MonthOfDay(_, _)
MonthOfDay(d, m) == IF d < DaysBeforeMonth(m + 1) THEN m ELSE MonthOfDay(d, m + 1)
MonthOf(dt) == MonthOfDay(DayIndex(dt), 1)
DayOf(dt)   == DayIndex(dt) - DaysBeforeMonth(MonthOf(dt)) + 1
HourOf(dt)   == (dt % 86400) \div 3600
MinuteOf(dt) == (dt % 3600) \div 60
SecondOf(dt) == dt % 60

\* dt.replace(hour=h, minute=m, second=s)
ReplaceTime(dt, h, m, s) == DayIndex(dt) * 86400 + h * 3600 + m * 60 + s

\* the names counted from a 2025-01-01 taken for a Tuesday
WeekdayNamesFromTuesday == <<"Tue", "Wed", "Thu", "Fri", "Sat", "Sun", "Mon">>

WeekdayNames == <<"Wed", "Thu", "Fri", "Sat", "Sun", "Mon", "Tue">>  \* 2025-01-01 is a Wednesday
MonthNames == <<"Jan", "Feb", "Mar", "Apr", "May", "Jun",
                "Jul", "Aug", "Sep", "Oct", "Nov", "Dec">>

\* "%H:%M:%S": each field as two decimal digits
TwoDigits(n) == <<n \div 10, n % 10>>
\* "{dt.day}": the decimal digits of the number, with no padding
Decimal(n) == IF n < 10 THEN <<n>> ELSE <<n \div 10, n % 10>>

format_date_for_git(dt) ==
    [weekday  |-> WeekdayNames[(DayIndex(dt) % 7) + 1],
     month    |-> MonthNames[MonthOf(dt)],
     day      |-> Decimal(DayOf(dt)),
     time     |-> <<TwoDigits(HourOf(dt)), TwoDigits(MinuteOf(dt)), TwoDigits(SecondOf(dt))>>,
     year     |-> 2025,
     timezone |-> "-0300"]

-----------------------------------------------------------------------------
(* generate_random_dates. The draws of random.randint are an input: one    *)
(* record [jitter, hour, minute, second] for each iteration of the loop.   *)

RECURSIVE Insert(_, _)
Insert(x, s) ==
    IF s = <<>> THEN <<x>>
    ELSE IF x <= Head(s) THEN <<x>> \o s
    ELSE <<Head(s)>> \o Insert(x, Tail(s))

\* the dates left in the order of their generation
UnsortedDates(dates) == dates

\* dates.sort()
RECURSIVE SortDates(_)
SortDates(dates) == IF dates = <<>> THEN <<>> ELSE Insert(Head(dates), SortDates(Tail(dates)))

\* line 21: the clamp of the day offset
ClampOffset(day_offset, date_range) == Max(0, Min(day_offset, date_range - 1))

\* lines 20-30: the i-th (0-based) datetime before sorting.
\* int((i / count) * date_range) is floor(i * date_range / count); the float
\* product equals the exact quotient for every count and date_range below 22.
DateAt(i, count, startdt, date_range, d) ==
    LET day_offset == ClampOffset(((i * date_range) \div count) + d.jitter, date_range)
        target_date == startdt + day_offset * 86400
    IN  ReplaceTime(target_date, d.hour, d.minute, d.second)

generate_random_dates(start_date, end_date, count, draws) ==
    LET startdt == strptime(start_date)
        enddt == strptime(end_date)
        date_range == ((enddt - startdt) \div 86400) + 1
        dates == [k \in 1..count |-> DateAt(k - 1, count, startdt, date_range, draws[k])]
    IN  SortDates(dates)

\* the values random.randint may return, cut to the ends of each range
JitterDraws == {-1, 0, 1}
HourDraws   == {16, 23}
MinuteDraws == {0, 59}
SecondDraws == {0, 59}
Draw == [jitter : JitterDraws, hour : HourDraws, minute : MinuteDraws, second : SecondDraws]

\* date strings given to the generator called on its own
InputDates == {<<2025, 8, 28>>, <<2025, 8, 31>>, <<2025, 9, 1>>}

-----------------------------------------------------------------------------
(* create_env_filter_script and the shell that runs its output.            *)
(* The script is the sequence of its lines after "#!/bin/bash"; a line is   *)
(* a record [kind, word, date]: the case pattern or exported variable is    *)
(* word, the exported string is date.                                       *)

NoDate == [weekday |-> "", month |-> "", day |-> 0, time |-> <<>>, year |-> 0, timezone |-> ""]
ScriptLine(kind, word, date) == [kind |-> kind, word |-> word, date |-> date]

\* a case arm that exports the author date only
CaseArmAuthorOnly(commit_hashes, dates, i) ==
    IF i - 1 < Len(dates)
    THEN <<[kind |-> "pattern", word |-> commit_hashes[i], date |-> NoDate],
           [kind |-> "export", word |-> "GIT_AUTHOR_DATE", date |-> format_date_for_git(dates[i])],
           [kind |-> ";;", word |-> "", date |-> NoDate]>>
    ELSE <<>>

\* lines 64-69: the case arm of commit i (1-based here)
CaseArm(commit_hashes, dates, i) ==
    IF i - 1 < Len(dates)
    THEN LET git_date == format_date_for_git(dates[i])
         IN  <<ScriptLine("pattern", commit_hashes[i], NoDate),
               ScriptLine("export", "GIT_AUTHOR_DATE", git_date),
               ScriptLine("export", "GIT_COMMITTER_DATE", git_date),
               ScriptLine(";;", "", NoDate)>>
    ELSE <<>>

RECURSIVE CaseArms(_, _, _)
CaseArms(commit_hashes, dates, i) ==
    IF i > Len(commit_hashes) THEN <<>>
    ELSE CaseArm(commit_hashes, dates, i) \o CaseArms(commit_hashes, dates, i + 1)

create_env_filter_script(commit_hashes, dates) ==
    <<ScriptLine("case", "GIT_COMMIT", NoDate)>>
    \o CaseArms(commit_hashes, dates, 1)
    \o <<ScriptLine("pattern", "*", NoDate),
         ScriptLine(";;", "", NoDate),
         ScriptLine("esac", "", NoDate)>>

\* sh: a pattern matches the word it spells, and "*" matches every word
PatternMatches(pattern, word) == pattern = "*" \/ pattern = word

\* sh: the commands of a case arm, from line k up to its ";;", applied to env
RECURSIVE RunArm(_, _, _)
RunArm(script, k, env) ==
    IF k > Len(script) \/ script[k].kind = ";;" \/ script[k].kind = "esac" THEN env
    ELSE IF script[k].kind = "export"
         THEN RunArm(script, k + 1, [env EXCEPT ![script[k].word] = script[k].date])
         ELSE RunArm(script, k + 1, env)

\* sh: case $GIT_COMMIT in ... esac runs the first arm whose pattern matches
RECURSIVE RunCase(_, _, _, _)
RunCase(script, k, git_commit, env) ==
    IF k > Len(script) \/ script[k].kind = "esac" THEN env
    ELSE IF script[k].kind = "pattern" /\ PatternMatches(script[k].word, git_commit)
         THEN RunArm(script, k + 1, env)
         ELSE RunCase(script, k + 1, git_commit, env)

\* the environment of one commit after the script ran on it; env holds the
\* commit's own dates on entry
RunScript(script, git_commit, env) == RunCase(script, 1, git_commit, env)

-----------------------------------------------------------------------------
(* The repository. A tree maps each path to the version of the file there, *)
(* 0 when the path is absent. A commit object is [tree, parent, message,   *)
(* author_date, committer_date]; parent 0 is a root commit. A message is   *)
(* [summary, body]: a line of text is the sequence of its fields, which    *)
(* the text joins with "|".                                                *)

Paths == {"a", "b", "u"}
EmptyTree == [p \in Paths |-> 0]
NoFile == <<>>
Branches == {"master", "main", "temp-rewrite", "new-history"}

HashNames == <<"h1", "h2", "h3", "h4", "h5", "h6", "h7", "h8", "h9", "h10", "h11", "h12">>
HashOf(k) == HashNames[k]

\* the commit a revision names, 0 when it names none
Resolve(rev) ==
    IF \E k \in 1..Len(objects) : HashOf(k) = rev
    THEN CHOOSE k \in 1..Len(objects) : HashOf(k) = rev
    ELSE 0

TreeOf(k) == IF k = 0 THEN EmptyTree ELSE objects[k].tree

\* the commits reachable from k, oldest first (git log --reverse)
RECURSIVE Chain(_)
Chain(k) == IF k = 0 THEN <<>> ELSE Chain(objects[k].parent) \o <<k>>

\* git status --porcelain prints a line for each of these
TrackedChanges == \E p \in Paths : index[p] # 0 /\ wt[p] # index[p]
UntrackedFiles == \E p \in Paths : index[p] = 0 /\ wt[p] # 0
ScriptUntracked == scriptFile # NoFile /\ ~ignoresScript
StatusOutput == TrackedChanges \/ UntrackedFiles \/ ScriptUntracked

\* git stash push: saves the changes of tracked files only, and saves nothing
\* ("No local changes to save", status 0) when there are none
StashPushStash ==
    IF TrackedChanges
    THEN <<[base |-> index, work |-> [p \in Paths |-> IF index[p] # 0 THEN wt[p] ELSE 0]]>> \o stash
    ELSE stash
StashPushWt == [p \in Paths |-> IF index[p] # 0 THEN index[p] ELSE wt[p]]

\* git stash pop: fails on an empty stack ("No stash entries found") and when
\* a file the entry changed holds, in the working directory, neither the
\* content the entry was made from nor the content the entry holds
StashPopFails ==
    \/ stash = <<>>
    \/ \E p \in Paths : /\ Head(stash).work[p] # Head(stash).base[p]
                        /\ wt[p] # Head(stash).base[p]
                        /\ wt[p] # Head(stash).work[p]
StashPopWt ==
    [p \in Paths |-> IF Head(stash).work[p] # Head(stash).base[p]
                     THEN Head(stash).work[p] ELSE wt[p]]

\* one step of the run, as the run's record keeps it
Call(cmd, ok, changed) == [cmd |-> cmd, ok |-> ok, changed |-> changed]
Note(cmd, ok, changed) == calls' = Append(calls, Call(cmd, ok, changed))

\* the outcomes a tool invocation may have: the state may force its failure,
\* and anything else may fail for reasons outside the model
Outcomes(mustFail) == IF mustFail THEN {FALSE} ELSE {TRUE, FALSE}

-----------------------------------------------------------------------------
(* git filter-branch -f --env-filter ./date_filter.sh HEAD, as section 6   *)
(* of the specification describes the facility: every commit of HEAD's     *)
(* history is written again with the dates the script exports for it, the  *)
(* branch moves to the new tip and the old tip is kept under refs/original. *)

RewrittenCommit(k, pos, base) ==
    LET env == RunScript(scriptFile, HashOf(k),
                         [GIT_AUTHOR_DATE |-> objects[k].author_date,
                          GIT_COMMITTER_DATE |-> objects[k].committer_date])
    IN  [tree |-> objects[k].tree,
         parent |-> IF pos = 1 THEN 0 ELSE base + pos - 1,
         message |-> objects[k].message,
         author_date |-> env.GIT_AUTHOR_DATE,
         committer_date |-> env.GIT_COMMITTER_DATE]

FilterBranchObjects ==
    LET old == Chain(refs[head])
        base == Len(objects)
    IN  objects \o [pos \in 1..Len(old) |-> RewrittenCommit(old[pos], pos, base)]

FilterBranchRefs == [refs EXCEPT ![head] = Len(objects) + Len(Chain(refs[head]))]

-----------------------------------------------------------------------------
(* The states a run starts from *)

Subjects == <<"s1", "s2", "s3", "s4">>
OrigDate == format_date_for_git(strptime(<<2025, 1, 1>>))

PlainMessage(k) == [summary |-> <<Subjects[k]>>, body |-> <<>>]
\* a summary that holds the delimiter: "s1|t"
PipeSummaryMessage(k) == [summary |-> <<Subjects[k], "t">>, body |-> <<>>]
\* a body line that quotes the first commit: "h1|old"
QuoteMessage(k) == [summary |-> <<Subjects[k]>>, body |-> <<<<"see">>, <<"h1", "old">>>>]
\* a body line that holds the delimiter and names no commit: "x|y"
PipeBodyMessage(k) == [summary |-> <<Subjects[k]>>, body |-> <<<<"x", "y">>>>]
MessageChoices(k) == {PlainMessage(k), PipeSummaryMessage(k), QuoteMessage(k), PipeBodyMessage(k)}

Tree(a, b) == [p \in Paths |-> IF p = "a" THEN a ELSE IF p = "b" THEN b ELSE 0]
TreeChoices == {Tree(1, 0), Tree(2, 0), Tree(1, 1)}
\* the tree of commit k in a history whose messages vary: file a alternates
PlainTree(k) == Tree(2 - (k % 2), 0)

Commit(tree, parent, message) ==
    [tree |-> tree, parent |-> parent, message |-> message,
     author_date |-> OrigDate, committer_date |-> OrigDate]

\* linear histories of n commits: the trees vary, or the messages do
TreeHistories(n) ==
    {[k \in 1..n |-> Commit(t[k], k - 1, PlainMessage(k))] : t \in [1..n -> TreeChoices]}
MessageHistories(n) ==
    {[k \in 1..n |-> Commit(PlainTree(k), k - 1, m[k])] :
        m \in {f \in [1..n -> UNION {MessageChoices(k) : k \in 1..n}] :
                  \A k \in 1..n : f[k] \in MessageChoices(k)}}
Histories(p) ==
    IF p = "dates"
    THEN UNION {{[k \in 1..n |-> Commit(PlainTree(k), k - 1, PlainMessage(k))]} : n \in 1..MaxCommits}
    ELSE UNION {TreeHistories(n) \cup MessageHistories(n) : n \in 1..MaxCommits}

\* an entry an earlier "git stash" left on the stack: it changed file b
EarlierEntry(tree) == [base |-> tree, work |-> [tree EXCEPT !["b"] = 2]]

\* the draws of a run's call of generate_random_dates
RunDraws == {[jitter |-> -1, hour |-> 23, minute |-> 59, second |-> 59],
             [jitter |-> 1, hour |-> 16, minute |-> 0, second |-> 0]}
\* a run draws the same values in every iteration
RunDrawSeqs(n) == {[k \in 1..n |-> d] : d \in RunDraws}

GenIdle ==
    /\ gPc = "idle" /\ gStart = <<2025, 8, 28>> /\ gEnd = <<2025, 8, 28>>
    /\ gCount = 0 /\ gDates = <<>>
ScriptIdle == sPc = "idle" /\ sHashes = <<>> /\ sDates = <<>> /\ sScript = <<>>
FormatIdle == fPc = "idle" /\ fIn = <<>> /\ fOut = <<>>

InitRepo ==
    /\ prog \in {"dates", "history"}
    /\ objects \in Histories(prog)
    /\ head \in {"master", "main"}
    /\ \E other \in 0..1 :
          refs = [b \in Branches |->
                    IF b = head THEN Len(objects)
                    ELSE IF b = "master" THEN other ELSE 0]
    /\ index = objects[Len(objects)].tree
    \* a modified file holds content 3, which no commit holds
    /\ \E dirty \in BOOLEAN, untracked \in BOOLEAN :
          wt = [p \in Paths |->
                  IF p = "a" /\ dirty THEN 3
                  ELSE IF p = "u" /\ untracked THEN 1
                  ELSE index[p]]
    /\ stash \in {<<>>, <<EarlierEntry(index)>>}
    /\ scriptFile = NoFile
    /\ ignoresScript \in (IF prog = "dates" THEN BOOLEAN ELSE {FALSE})
    /\ backupRefs = {}

InitLocals ==
    /\ pc = IF prog = "dates" THEN "d_enum" ELSE "h_status"
    /\ commits = <<>>
    /\ new_dates = <<>>
    /\ stashed = FALSE
    /\ loop_i = 0
    /\ new_commit_hashes = <<>>
    /\ result = "running"
    /\ calls = <<>>
    /\ start = [refs |-> refs, head |-> head, stash |-> stash, wt |-> wt, objects |-> objects]

Init == GenIdle /\ ScriptIdle /\ FormatIdle /\ InitRepo /\ InitLocals

\* no script runs: the generator or the script builder is called on its own
RunIdle ==
    /\ prog = "none" /\ pc = "done"
    /\ objects = <<>> /\ refs = [b \in Branches |-> 0] /\ head = "master"
    /\ index = EmptyTree /\ wt = EmptyTree /\ stash = <<>>
    /\ scriptFile = NoFile /\ ignoresScript = FALSE /\ backupRefs = {}
    /\ commits = <<>> /\ new_dates = <<>> /\ stashed = FALSE /\ loop_i = 0
    /\ new_commit_hashes = <<>> /\ result = "running" /\ calls = <<>>
    /\ start = [refs |-> refs, head |-> head, stash |-> stash, wt |-> wt, objects |-> objects]

-----------------------------------------------------------------------------
(* generate_random_dates(start_date, end_date, count) called on its own *)

InitGen ==
    /\ gPc = "call"
    /\ gStart \in InputDates /\ gEnd \in InputDates
    /\ strptime(gStart) <= strptime(gEnd)
    /\ gCount \in 0..MaxCount
    /\ gDates = <<>>
    /\ ScriptIdle /\ FormatIdle /\ RunIdle

GenerateCall ==
    /\ gPc = "call"
    /\ \E draws \in [1..gCount -> Draw] :
          gDates' = generate_random_dates(gStart, gEnd, gCount, draws)
    /\ gPc' = "returned"
    /\ UNCHANGED <<gStart, gEnd, gCount, scriptVars, formatVars, repoVars, localVars>>

SpecGen == InitGen /\ [][GenerateCall]_vars

-----------------------------------------------------------------------------
(* create_env_filter_script(commit_hashes, dates) called on its own, on a  *)
(* list of distinct commit identifiers and as many generated dates         *)

ScriptHashes == {"h1", "h2", "h3", "h4"}
DistinctSeqs(n) == {h \in [1..n -> ScriptHashes] : \A i, j \in 1..n : h[i] = h[j] => i = j}

InitScript ==
    /\ sPc = "call"
    /\ \E n \in 0..MaxCommits :
          /\ sHashes \in DistinctSeqs(n)
          /\ \E draws \in [1..n -> RunDraws] :
                sDates = generate_random_dates(<<2025, 8, 28>>, <<2025, 9, 14>>, n, draws)
    /\ sScript = <<>>
    /\ GenIdle /\ FormatIdle /\ RunIdle

ScriptCall ==
    /\ sPc = "call"
    /\ sScript' = create_env_filter_script(sHashes, sDates)
    /\ sPc' = "returned"
    /\ UNCHANGED <<sHashes, sDates, genVars, formatVars, repoVars, localVars>>

SpecScript == InitScript /\ [][ScriptCall]_vars

-----------------------------------------------------------------------------
(* format_date_for_git(dt) called on its own, on the datetime built from   *)
(* the calendar fields <<month, day, hour, minute, second>> of 2025        *)

\* days at the ends of months and of the window of the scripts, and days with
\* one digit and with two
FormatDays == {<<1, 1>>, <<2, 28>>, <<3, 1>>, <<8, 28>>, <<8, 31>>, <<9, 1>>,
               <<9, 9>>, <<9, 14>>, <<12, 31>>}
FormatHours == {0, 9, 16, 18, 23}
FormatMinutes == {0, 5, 41, 59}
FormatSeconds == {0, 7, 59}

\* datetime(2025, month, day, hour, minute, second)
datetime(f) == ReplaceTime(strptime(<<2025, f[1], f[2]>>), f[3], f[4], f[5])

InitFormat ==
    /\ fPc = "call"
    /\ \E d \in FormatDays, h \in FormatHours, m \in FormatMinutes, sec \in FormatSeconds :
          fIn = <<d[1], d[2], h, m, sec>>
    /\ fOut = <<>>
    /\ GenIdle /\ ScriptIdle /\ RunIdle

FormatCall ==
    /\ fPc = "call"
    /\ fOut' = format_date_for_git(datetime(fIn))
    /\ fPc' = "returned"
    /\ UNCHANGED <<fIn, genVars, scriptVars, repoVars, localVars>>

SpecFormat == InitFormat /\ [][FormatCall]_vars

-----------------------------------------------------------------------------
(* rewrite_dates.py: main *)

\* get_commit_hashes: git log --format=%H --reverse
DEnumerate ==
    /\ prog = "dates" /\ pc = "d_enum"
    /\ \E ok \in Outcomes(refs[head] = 0) :
          /\ Note("log", ok, FALSE)
          /\ IF ok
             THEN /\ commits' = [k \in 1..Len(Chain(refs[head])) |-> HashOf(Chain(refs[head])[k])]
                  /\ pc' = "d_gen"
                  /\ UNCHANGED result
             ELSE /\ pc' = "done"            \* sys.exit(1)
                  /\ result' = "exit1"
                  /\ UNCHANGED commits
    /\ UNCHANGED <<genVars, scriptVars, formatVars, repoVars, prog, new_dates, stashed, loop_i,
                   new_commit_hashes, start>>

\* lines 87-97: the dates, and the preview of the first five
DGenerate ==
    /\ prog = "dates" /\ pc = "d_gen"
    /\ \E draws \in RunDrawSeqs(Len(commits)) :
          new_dates' = generate_random_dates(<<2025, 8, 28>>, <<2025, 9, 14>>, Len(commits), draws)
    /\ Note("preview", TRUE, FALSE)
    /\ pc' = "d_write"
    /\ UNCHANGED <<genVars, scriptVars, formatVars, repoVars, prog, commits, stashed, loop_i,
                   new_commit_hashes, result, start>>

\* lines 99-107: date_filter.sh is written
DWriteScript ==
    /\ prog = "dates" /\ pc = "d_write"
    /\ scriptFile' = create_env_filter_script(commits, new_dates)
    /\ Note("write date_filter.sh", TRUE, TRUE)
    /\ pc' = "d_status"
    /\ UNCHANGED <<genVars, scriptVars, formatVars, objects, refs, head, index, wt, stash, ignoresScript,
                   backupRefs, prog, commits, new_dates, stashed, loop_i, new_commit_hashes,
                   result, start>>

\* lines 110-117: git status --porcelain; a failed status prints nothing
DStatus ==
    /\ prog = "dates" /\ pc = "d_status"
    /\ \E ok \in BOOLEAN :
          /\ Note("status", ok, FALSE)
          /\ IF ok /\ StatusOutput
             THEN pc' = "d_stash" /\ UNCHANGED stashed
             ELSE pc' = "d_filter" /\ stashed' = FALSE
    /\ UNCHANGED <<genVars, scriptVars, formatVars, repoVars, prog, commits, new_dates, loop_i,
                   new_commit_hashes, result, start>>

\* lines 113-115: git stash push, check=True, outside the try block
DStashPush ==
    /\ prog = "dates" /\ pc = "d_stash"
    /\ \E ok \in BOOLEAN :
          /\ Note("stash push", ok, ok /\ TrackedChanges)
          /\ IF ok
             THEN /\ stash' = StashPushStash
                  /\ wt' = StashPushWt
                  /\ stashed' = TRUE
                  /\ pc' = "d_filter"
                  /\ UNCHANGED result
             ELSE /\ pc' = "done"            \* CalledProcessError leaves main
                  /\ result' = "raise"
                  /\ UNCHANGED <<stash, wt, stashed>>
    /\ UNCHANGED <<genVars, scriptVars, formatVars, objects, refs, head, index, scriptFile, ignoresScript,
                   backupRefs, prog, commits, new_dates, loop_i, new_commit_hashes, start>>

\* a failed rewrite that goes on to the backup-ref cleanup
RewriteFailedThenCleanup == pc' = "d_foreach" /\ result' = "false"

\* lines 129-132: the rewrite failed: return False, which enters the finally block
RewriteFailed == pc' = "d_finally" /\ result' = "false"

\* lines 119-134: git filter-branch, which refuses a tree with changes to
\* tracked files
DFilterBranch ==
    /\ prog = "dates" /\ pc = "d_filter"
    /\ \E ok \in Outcomes(TrackedChanges) :
          /\ Note("filter-branch", ok, ok)
          /\ IF ok
             THEN /\ objects' = FilterBranchObjects
                  /\ refs' = FilterBranchRefs
                  /\ backupRefs' = backupRefs \cup {head}
                  /\ pc' = "d_foreach"
                  /\ UNCHANGED result
             ELSE /\ RewriteFailed
                  /\ UNCHANGED <<objects, refs, backupRefs>>
    /\ UNCHANGED <<genVars, scriptVars, formatVars, head, index, wt, stash, scriptFile, ignoresScript,
                   prog, commits, new_dates, stashed, loop_i, new_commit_hashes, start>>

\* lines 137-139: git for-each-ref refs/original/, check=True; its output is not read
DForEachRef ==
    /\ prog = "dates" /\ pc = "d_foreach"
    /\ \E ok \in BOOLEAN :
          /\ Note("for-each-ref", ok, FALSE)
          /\ IF ok
             THEN pc' = "d_updateref" /\ UNCHANGED result
             ELSE pc' = "d_finally" /\ result' = "true"    \* except: pass; return True
    /\ UNCHANGED <<genVars, scriptVars, formatVars, repoVars, prog, commits, new_dates, stashed, loop_i,
                   new_commit_hashes, start>>

\* the refs git update-ref -d refs/original/refs/heads/master leaves
UpdateRefDelete == backupRefs \ {"master"}

\* lines 140-146: deleting a ref that does not exist succeeds too
DUpdateRef ==
    /\ prog = "dates" /\ pc = "d_updateref"
    /\ \E ok \in BOOLEAN :
          /\ Note("update-ref -d", ok, ok /\ UpdateRefDelete # backupRefs)
          /\ backupRefs' = IF ok THEN UpdateRefDelete ELSE backupRefs
    /\ pc' = "d_finally"
    /\ result' = "true"
    /\ UNCHANGED <<genVars, scriptVars, formatVars, objects, refs, head, index, wt, stash, scriptFile,
                   ignoresScript, prog, commits, new_dates, stashed, loop_i,
                   new_commit_hashes, start>>

\* lines 148-157: the finally block: git stash pop with check=True, then the
\* removal of date_filter.sh
DFinally ==
    /\ prog = "dates" /\ pc = "d_finally"
    /\ pc' = "done"
    /\ IF stashed
       THEN \E ok \in Outcomes(StashPopFails) :
               IF ok
               THEN /\ stash' = Tail(stash)
                    /\ wt' = StashPopWt
                    /\ scriptFile' = NoFile
                    /\ calls' = calls \o <<Call("stash pop", TRUE, TRUE),
                                           Call("remove date_filter.sh", TRUE, TRUE)>>
                    /\ UNCHANGED result
               ELSE /\ result' = "raise"     \* CalledProcessError leaves the finally block
                    /\ Note("stash pop", FALSE, FALSE)
                    /\ UNCHANGED <<stash, wt, scriptFile>>
       ELSE /\ scriptFile' = NoFile
            /\ Note("remove date_filter.sh", TRUE, TRUE)
            /\ UNCHANGED <<stash, wt, result>>
    /\ UNCHANGED <<genVars, scriptVars, formatVars, objects, refs, head, index, ignoresScript, backupRefs,
                   prog, commits, new_dates, stashed, loop_i, new_commit_hashes, start>>

-----------------------------------------------------------------------------
(* git, as rewrite_history.py drives it *)

\* the files of the working directory after the tracked files become those of tree
SwitchWt(tree) == [p \in Paths |-> IF index[p] # 0 \/ tree[p] # 0 THEN tree[p] ELSE wt[p]]
\* git refuses to switch when it would overwrite a local change or an untracked file
SwitchRefused(tree) ==
    \E p \in Paths : /\ tree[p] # index[p]
                     /\ wt[p] # index[p]
                     /\ wt[p] # tree[p]

\* git checkout <rev> -- . : the files of the commit's tree are written to the
\* index and the working directory; paths the tree does not hold stay as they are
CheckoutFilesFails(rev) == Resolve(rev) = 0 \/ TreeOf(Resolve(rev)) = EmptyTree
CheckoutFilesTree(rev, old) ==
    [p \in Paths |-> IF TreeOf(Resolve(rev))[p] # 0 THEN TreeOf(Resolve(rev))[p] ELSE old[p]]

\* git commit -m message with GIT_AUTHOR_DATE and GIT_COMMITTER_DATE set: the
\* parent of the new commit is the commit HEAD's branch points at, none when
\* the branch is unborn
CommitFails(message) == index = TreeOf(refs[head]) \/ message = ""
NewCommit(message, git_date) ==
    [tree |-> index, parent |-> refs[head],
     message |-> [summary |-> <<message>>, body |-> <<>>],
     author_date |-> git_date, committer_date |-> git_date]

\* git log --format=%H|%s|%B --reverse: the lines one commit prints
BlankLine == <<"">>
CommitLogLines(k) ==
    LET m == objects[k].message
    IN  <<<<HashOf(k)>> \o m.summary \o m.summary>>
        \o (IF m.body = <<>> THEN <<>> ELSE <<BlankLine>> \o m.body)
        \o <<BlankLine>>

RECURSIVE LogLines(_)
LogLines(chain) ==
    IF chain = <<>> THEN <<>> ELSE CommitLogLines(Head(chain)) \o LogLines(Tail(chain))

\* str.strip() on the output, then split('\n')
RECURSIVE StripLines(_)
StripLines(lines) ==
    IF lines = <<>> THEN <<>>
    ELSE IF Head(lines) = BlankLine THEN StripLines(Tail(lines))
    ELSE IF lines[Len(lines)] = BlankLine THEN StripLines(SubSeq(lines, 1, Len(lines) - 1))
    ELSE lines

\* lines 59-66: the record of one line; the line holds "|" when it has two
\* fields or more, and split('|', 2) cuts it at the first two delimiters
HasDelimiter(line) == Len(line) >= 2
ParseLine(line) ==
    [hash |-> line[1],
     message |-> line[2],
     body |-> IF Len(line) > 2 THEN SubSeq(line, 3, Len(line)) ELSE <<line[2]>>]

RECURSIVE ParseLines(_)
ParseLines(lines) ==
    IF lines = <<>> THEN <<>>
    ELSE (IF HasDelimiter(Head(lines)) THEN <<ParseLine(Head(lines))>> ELSE <<>>)
         \o ParseLines(Tail(lines))

get_commit_info(stdout) == ParseLines(StripLines(stdout))

-----------------------------------------------------------------------------
(* rewrite_history.py: main and rewrite_history_manually *)

histUnchanged == <<genVars, scriptVars, formatVars, scriptFile, ignoresScript, backupRefs, prog, start>>

\* an exception inside the try block of main goes through its finally block
Raise == pc' = "h_finally" /\ result' = "raise"

\* lines 139-146
HStatus ==
    /\ prog = "history" /\ pc = "h_status"
    /\ \E ok \in BOOLEAN :
          /\ Note("status", ok, FALSE)
          /\ IF ok /\ StatusOutput
             THEN pc' = "h_stash" /\ UNCHANGED stashed
             ELSE pc' = "h_enum" /\ stashed' = FALSE
    /\ UNCHANGED <<histUnchanged, objects, refs, head, index, wt, stash, commits, new_dates,
                   loop_i, new_commit_hashes, result>>

\* lines 142-144: check=True, before the try block
HStashPush ==
    /\ prog = "history" /\ pc = "h_stash"
    /\ \E ok \in BOOLEAN :
          /\ Note("stash push", ok, ok /\ TrackedChanges)
          /\ IF ok
             THEN /\ stash' = StashPushStash
                  /\ wt' = StashPushWt
                  /\ stashed' = TRUE
                  /\ pc' = "h_enum"
                  /\ UNCHANGED result
             ELSE /\ pc' = "done"
                  /\ result' = "raise"
                  /\ UNCHANGED <<stash, wt, stashed>>
    /\ UNCHANGED <<histUnchanged, objects, refs, head, index, commits, new_dates, loop_i,
                   new_commit_hashes>>

\* lines 150-152: get_commit_info; sys.exit(1) goes through the finally block
HEnumerate ==
    /\ prog = "history" /\ pc = "h_enum"
    /\ \E ok \in Outcomes(refs[head] = 0) :
          /\ Note("log", ok, FALSE)
          /\ IF ok
             THEN /\ commits' = get_commit_info(LogLines(Chain(refs[head])))
                  /\ pc' = "h_gen"
                  /\ UNCHANGED result
             ELSE /\ pc' = "h_finally"
                  /\ result' = "exit1"
                  /\ UNCHANGED commits
    /\ UNCHANGED <<histUnchanged, objects, refs, head, index, wt, stash, new_dates, stashed,
                   loop_i, new_commit_hashes>>

\* lines 154-166: the dates, and the preview of the first five
HGenerate ==
    /\ prog = "history" /\ pc = "h_gen"
    /\ \E draws \in RunDrawSeqs(Len(commits)) :
          new_dates' = generate_random_dates(<<2025, 8, 28>>, <<2025, 9, 14>>, Len(commits), draws)
    /\ Note("preview", TRUE, FALSE)
    /\ pc' = "h_checkout_b"
    /\ UNCHANGED <<histUnchanged, objects, refs, head, index, wt, stash, commits, stashed,
                   loop_i, new_commit_hashes, result>>

\* line 74: git checkout -b temp-rewrite, check=True
HCheckoutTemp ==
    /\ prog = "history" /\ pc = "h_checkout_b"
    /\ \E ok \in Outcomes(refs["temp-rewrite"] # 0) :
          /\ Note("checkout -b temp-rewrite", ok, ok)
          /\ IF ok
             THEN /\ refs' = [refs EXCEPT !["temp-rewrite"] = refs[head]]
                  /\ head' = "temp-rewrite"
                  /\ pc' = "h_revlist"
                  /\ UNCHANGED result
             ELSE Raise /\ UNCHANGED <<refs, head>>
    /\ UNCHANGED <<histUnchanged, objects, index, wt, stash, commits, new_dates, stashed,
                   loop_i, new_commit_hashes>>

\* lines 77-79: git rev-list --parents of the first record; neither its status
\* nor its output is read
HRevList ==
    /\ prog = "history" /\ pc = "h_revlist"
    /\ Note("rev-list", Resolve(commits[1].hash) # 0, FALSE)
    /\ pc' = "h_orphan"
    /\ UNCHANGED <<histUnchanged, objects, refs, head, index, wt, stash, commits, new_dates,
                   stashed, loop_i, new_commit_hashes, result>>

\* line 82: git checkout --orphan new-history, check=True: HEAD names a branch
\* that has no commit yet; the index and the files stay
HCheckoutOrphan ==
    /\ prog = "history" /\ pc = "h_orphan"
    /\ \E ok \in Outcomes(refs["new-history"] # 0) :
          /\ Note("checkout --orphan new-history", ok, ok)
          /\ IF ok
             THEN head' = "new-history" /\ pc' = "h_rm" /\ UNCHANGED result
             ELSE Raise /\ UNCHANGED head
    /\ UNCHANGED <<histUnchanged, objects, refs, index, wt, stash, commits, new_dates, stashed,
                   loop_i, new_commit_hashes>>

\* line 83: git rm -rf . with check=False: the tracked files leave the index
\* and the working directory
HRemoveAll ==
    /\ prog = "history" /\ pc = "h_rm"
    /\ \E ok \in Outcomes(index = EmptyTree) :
          /\ Note("rm -rf .", ok, ok)
          /\ index' = IF ok THEN EmptyTree ELSE index
          /\ wt' = IF ok THEN [p \in Paths |-> IF index[p] # 0 THEN 0 ELSE wt[p]] ELSE wt
    /\ loop_i' = 1
    /\ pc' = "h_co_files"
    /\ UNCHANGED <<histUnchanged, objects, refs, head, stash, commits, new_dates, stashed,
                   new_commit_hashes, result>>

\* line 91: git checkout <hash> -- . with check=True
HCheckoutFiles ==
    /\ prog = "history" /\ pc = "h_co_files"
    /\ \E ok \in Outcomes(CheckoutFilesFails(commits[loop_i].hash)) :
          /\ Note("checkout <hash> -- .", ok, ok)
          /\ IF ok
             THEN /\ index' = CheckoutFilesTree(commits[loop_i].hash, index)
                  /\ wt' = CheckoutFilesTree(commits[loop_i].hash, wt)
                  /\ pc' = "h_add"
                  /\ UNCHANGED result
             ELSE Raise /\ UNCHANGED <<index, wt>>
    /\ UNCHANGED <<histUnchanged, objects, refs, head, stash, commits, new_dates, stashed,
                   loop_i, new_commit_hashes>>

\* line 94: git add . with check=True: the index becomes the working directory
HAdd ==
    /\ prog = "history" /\ pc = "h_add"
    /\ \E ok \in BOOLEAN :
          /\ Note("add .", ok, ok /\ index # wt)
          /\ IF ok
             THEN index' = wt /\ pc' = "h_commit" /\ UNCHANGED result
             ELSE Raise /\ UNCHANGED index
    /\ UNCHANGED <<histUnchanged, objects, refs, head, wt, stash, commits, new_dates, stashed,
                   loop_i, new_commit_hashes>>

\* a rollback of the scratch branches on failure, which the code does not do
ReturnFalseAfterCleanup == pc' = "h_del_temp" /\ result' = "false"

\* lines 118-122: except CalledProcessError: return False, which main returns
\* through its finally block
ReturnFalse == pc' = "h_finally" /\ result' = "false"

\* lines 97-110: git commit -m message under the new dates;
\* parent_args is computed and never passed
HCommit ==
    /\ prog = "history" /\ pc = "h_commit"
    /\ \E ok \in Outcomes(CommitFails(commits[loop_i].message)) :
          /\ Note("commit", ok, ok)
          /\ IF ok
             THEN /\ objects' = Append(objects, NewCommit(commits[loop_i].message,
                                                          format_date_for_git(new_dates[loop_i])))
                  /\ refs' = [refs EXCEPT ![head] = Len(objects) + 1]
                  /\ pc' = "h_revparse"
                  /\ UNCHANGED result
             ELSE ReturnFalse /\ UNCHANGED <<objects, refs>>
    /\ UNCHANGED <<histUnchanged, head, index, wt, stash, commits, new_dates, stashed, loop_i,
                   new_commit_hashes>>

\* lines 113-116: git rev-parse HEAD, then the next commit
HRevParse ==
    /\ prog = "history" /\ pc = "h_revparse"
    /\ \E ok \in BOOLEAN :
          /\ Note("rev-parse HEAD", ok, FALSE)
          /\ IF ok
             THEN /\ new_commit_hashes' = Append(new_commit_hashes, HashOf(refs[head]))
                  /\ IF loop_i < Len(commits)
                     THEN loop_i' = loop_i + 1 /\ pc' = "h_co_files"
                     ELSE pc' = "h_co_master" /\ UNCHANGED loop_i
                  /\ UNCHANGED result
             ELSE ReturnFalse /\ UNCHANGED <<new_commit_hashes, loop_i>>
    /\ UNCHANGED <<histUnchanged, objects, refs, head, index, wt, stash, commits, new_dates,
                   stashed>>

\* line 125: git checkout master, check=True
HCheckoutMaster ==
    /\ prog = "history" /\ pc = "h_co_master"
    /\ \E ok \in Outcomes(refs["master"] = 0 \/ SwitchRefused(TreeOf(refs["master"]))) :
          /\ Note("checkout master", ok, ok)
          /\ IF ok
             THEN /\ head' = "master"
                  /\ index' = TreeOf(refs["master"])
                  /\ wt' = SwitchWt(TreeOf(refs["master"]))
                  /\ pc' = "h_reset"
                  /\ UNCHANGED result
             ELSE Raise /\ UNCHANGED <<head, index, wt>>
    /\ UNCHANGED <<histUnchanged, objects, refs, stash, commits, new_dates, stashed, loop_i,
                   new_commit_hashes>>

\* line 126: git reset --hard <last new hash>, check=True
HReset ==
    /\ prog = "history" /\ pc = "h_reset"
    /\ LET target == Resolve(new_commit_hashes[Len(new_commit_hashes)])
       IN  \E ok \in Outcomes(target = 0) :
              /\ Note("reset --hard", ok, ok)
              /\ IF ok
                 THEN /\ refs' = [refs EXCEPT ![head] = target]
                      /\ index' = TreeOf(target)
                      /\ wt' = SwitchWt(TreeOf(target))
                      /\ pc' = "h_del_temp"
                      /\ UNCHANGED result
                 ELSE Raise /\ UNCHANGED <<refs, index, wt>>
    /\ UNCHANGED <<histUnchanged, objects, head, stash, commits, new_dates, stashed, loop_i,
                   new_commit_hashes>>

\* git branch -D <branch>: fails for a branch that is absent or checked out
BranchDeleteFails(branch) == refs[branch] = 0 \/ head = branch

\* line 129: git branch -D temp-rewrite, check=False
HDeleteTemp ==
    /\ prog = "history" /\ pc = "h_del_temp"
    /\ \E ok \in Outcomes(BranchDeleteFails("temp-rewrite")) :
          /\ Note("branch -D temp-rewrite", ok, ok)
          /\ refs' = IF ok THEN [refs EXCEPT !["temp-rewrite"] = 0] ELSE refs
    /\ pc' = "h_del_new"
    /\ UNCHANGED <<histUnchanged, objects, head, index, wt, stash, commits, new_dates, stashed,
                   loop_i, new_commit_hashes, result>>

\* lines 130-132 and 169-171: git branch -D new-history, check=False; return True
HDeleteNew ==
    /\ prog = "history" /\ pc = "h_del_new"
    /\ \E ok \in Outcomes(BranchDeleteFails("new-history")) :
          /\ Note("branch -D new-history", ok, ok)
          /\ refs' = IF ok THEN [refs EXCEPT !["new-history"] = 0] ELSE refs
    /\ pc' = "h_finally"
    /\ result' = "true"
    /\ UNCHANGED <<histUnchanged, objects, head, index, wt, stash, commits, new_dates, stashed,
                   loop_i, new_commit_hashes>>

\* lines 176-180: the finally block: git stash pop with check=True
HFinally ==
    /\ prog = "history" /\ pc = "h_finally"
    /\ pc' = "done"
    /\ IF stashed
       THEN \E ok \in Outcomes(StashPopFails) :
               /\ Note("stash pop", ok, ok)
               /\ IF ok
                  THEN stash' = Tail(stash) /\ wt' = StashPopWt /\ UNCHANGED result
                  ELSE result' = "raise" /\ UNCHANGED <<stash, wt>>
       ELSE UNCHANGED <<stash, wt, result, calls>>
    /\ UNCHANGED <<histUnchanged, objects, refs, head, index, commits, new_dates, stashed,
                   loop_i, new_commit_hashes>>

NextHistory ==
    \/ HStatus \/ HStashPush \/ HEnumerate \/ HGenerate \/ HCheckoutTemp \/ HRevList
    \/ HCheckoutOrphan \/ HRemoveAll \/ HCheckoutFiles \/ HAdd \/ HCommit \/ HRevParse
    \/ HCheckoutMaster \/ HReset \/ HDeleteTemp \/ HDeleteNew \/ HFinally

NextDates ==
    \/ DEnumerate \/ DGenerate \/ DWriteScript \/ DStatus \/ DStashPush
    \/ DFilterBranch \/ DForEachRef \/ DUpdateRef \/ DFinally

Next == NextDates \/ NextHistory

Spec == Init /\ [][Next]_vars

-----------------------------------------------------------------------------
(* What the claims speak of *)

\* lines 160-167 of rewrite_dates.py, 183-190 of rewrite_history.py: the exit
\* status of the process; an exception and sys.exit(1) both give 1
ExitStatus == IF result = "true" THEN 0 ELSE 1

Called(cmd) == \E j \in 1..Len(calls) : calls[j].cmd = cmd
Failed(cmd) == \E j \in 1..Len(calls) : calls[j].cmd = cmd /\ ~calls[j].ok
Succeeded(cmd) == \E j \in 1..Len(calls) : calls[j].cmd = cmd /\ calls[j].ok
AllCallsOk == \A j \in 1..Len(calls) : calls[j].ok
Mutated == \E j \in 1..Len(calls) : calls[j].changed

NOrig == Len(start.objects)
IsNew(k) == k > NOrig
NewCommits == {k \in 1..Len(objects) : IsNew(k)}
InChain(k, tip) == \E j \in 1..Len(Chain(tip)) : Chain(tip)[j] = k
\* the chain the run built: the history of the last commit it recorded
NewChain ==
    IF new_commit_hashes = <<>> THEN <<>>
    ELSE Chain(Resolve(new_commit_hashes[Len(new_commit_hashes)]))

ReconSuccess == prog = "history" /\ pc = "done" /\ result = "true"

\* the run began on a working tree with no change and no untracked file
CleanStart == start.wt = start.objects[start.refs[start.head]].tree
\* modifications the run set aside, and their restoration
SetAside == \E j \in 1..Len(calls) : calls[j].cmd = "stash push" /\ calls[j].changed
Restored == Succeeded("stash pop")

-----------------------------------------------------------------------------
(* C1: generate_random_dates(start, end, N) with start <= end returns     *)
(* exactly N timestamps (none for N = 0), each within [start 16:00:00,    *)
(* end 23:59:59], in non-decreasing order, whatever the draws.            *)
C1_GeneratorContract ==
    gPc = "returned" =>
        /\ Len(gDates) = gCount
        /\ \A k \in 1..Len(gDates) :
              /\ strptime(gStart) + 16 * 3600 <= gDates[k]
              /\ gDates[k] <= strptime(gEnd) + 23 * 3600 + 59 * 60 + 59
        /\ \A k \in 1..(Len(gDates) - 1) : gDates[k] <= gDates[k + 1]

\* three timestamps over a window of several days, on more than one day
C1_Witness ==
    /\ gPc = "returned" /\ gCount = 3 /\ Len(gDates) = 3
    /\ gStart # gEnd
    /\ DayIndex(gDates[1]) < DayIndex(gDates[3])

(* C2: after a Reconstruction run that reports success, the tree of the   *)
(* i-th new commit is the tree of the i-th original commit, for every i.  *)
(* Stated of the runs that began on a clean working tree and in which     *)
(* every tool invocation succeeded.                                       *)
C2_TreesIdentical ==
    (ReconSuccess /\ CleanStart /\ AllCallsOk) =>
        \A i \in 1..NOrig :
            /\ i <= Len(NewChain)
            /\ objects[NewChain[i]].tree = start.objects[i].tree

(* C3: when git commit fails at position k, the run reports failure, the  *)
(* branches that existed before the run point where they pointed, the k-1 *)
(* commits made so far are reachable from the scratch branch new-history  *)
(* and from no other branch, and neither a reset nor a deletion of a      *)
(* scratch branch is performed.                                           *)
C3_CommitFailureAborts ==
    (prog = "history" /\ Failed("commit")) =>
        /\ result \in {"false", "raise"}
        /\ ExitStatus # 0
        /\ \A b \in {"master", "main"} : refs[b] = start.refs[b]
        /\ Cardinality(NewCommits) = loop_i - 1
        /\ \A k \in NewCommits :
              /\ InChain(k, refs["new-history"])
              /\ \A b \in Branches \ {"new-history"} : ~InChain(k, refs[b])
        /\ ~Called("reset --hard")
        /\ ~Called("branch -D temp-rewrite")
        /\ ~Called("branch -D new-history")

\* the run ended after git commit failed at position 2: one commit was made
C3_Witness ==
    /\ prog = "history" /\ pc = "done" /\ Failed("commit")
    /\ loop_i = 2 /\ Cardinality(NewCommits) = 1

(* C4: on every exit path of a Metadata Filter run, at termination the    *)
(* modifications the run set aside are restored and date_filter.sh does   *)
(* not exist.                                                             *)
C4_CleanupOnEveryExit ==
    (prog = "dates" /\ pc = "done") =>
        /\ scriptFile = NoFile
        /\ SetAside => Restored

(* C5: when the Metadata Filter hands the rewrite to git, the working     *)
(* tree is clean: git status --porcelain would print nothing. Stated of   *)
(* the runs in which every tool invocation so far succeeded.              *)
C5_CleanAtRewrite ==
    (prog = "dates" /\ pc = "d_filter" /\ AllCallsOk) => ~StatusOutput

(* C6: in both strategies, a run whose commit enumeration failed ends     *)
(* with a nonzero exit status and has changed nothing in the repository.  *)
C6_EnumerationFailureBeforeMutation ==
    Failed("log") => (ExitStatus # 0 /\ ~Mutated)

(* C7: for the enumerated commit at position i the override script sets   *)
(* the author date and the committer date to the formatted i-th date, and *)
(* for any other commit identifier it sets neither.                       *)
OriginalEnv == [GIT_AUTHOR_DATE |-> OrigDate, GIT_COMMITTER_DATE |-> OrigDate]
C7_ScriptSetsBothDates ==
    sPc = "returned" =>
        \A id \in ScriptHashes :
            LET env == RunScript(sScript, id, OriginalEnv)
            IN  /\ \A i \in 1..Len(sHashes) :
                      sHashes[i] = id =>
                          /\ env.GIT_AUTHOR_DATE = format_date_for_git(sDates[i])
                          /\ env.GIT_COMMITTER_DATE = format_date_for_git(sDates[i])
                /\ (\A i \in 1..Len(sHashes) : sHashes[i] # id) => env = OriginalEnv

\* a script for two commits whose dates differ, and an identifier it does not list
C7_Witness ==
    /\ sPc = "returned" /\ Len(sHashes) = 2
    /\ format_date_for_git(sDates[1]) # format_date_for_git(sDates[2])
    /\ RunScript(sScript, sHashes[2], OriginalEnv).GIT_COMMITTER_DATE = format_date_for_git(sDates[2])
    /\ \E id \in ScriptHashes : \A i \in 1..2 : sHashes[i] # id

(* C8: after a Reconstruction run that reports success on N >= 1 original *)
(* commits, the new chain has exactly N commits, the first without parent *)
(* and every later one with the commit made before it as its only parent. *)
(* Stated of the runs that began on a clean working tree and in which     *)
(* every tool invocation succeeded.                                       *)
C8_NewChainLinear ==
    (ReconSuccess /\ CleanStart /\ AllCallsOk) =>
        /\ Len(NewChain) = NOrig
        /\ \A i \in 1..Len(NewChain) :
              /\ IsNew(NewChain[i])
              /\ objects[NewChain[i]].parent = IF i = 1 THEN 0 ELSE NewChain[i - 1]

(* C9: after a Reconstruction run in which every tool invocation          *)
(* succeeds, the branch whose history was enumerated points at the last   *)
(* new commit and neither temp-rewrite nor new-history exists.            *)
C9_MainBranchReplaced ==
    (prog = "history" /\ pc = "done" /\ AllCallsOk) =>
        /\ refs[start.head] = Resolve(new_commit_hashes[Len(new_commit_hashes)])
        /\ refs["temp-rewrite"] = 0
        /\ refs["new-history"] = 0

(* C10: after a Metadata Filter run in which the rewrite and every later  *)
(* tool invocation succeed, no ref under refs/original/ remains, whatever *)
(* the current branch is called.                                          *)
RewriteAndLaterOk ==
    \E j \in 1..Len(calls) :
        /\ calls[j].cmd = "filter-branch"
        /\ \A k \in j..Len(calls) : calls[k].ok
C10_NoBackupRefLeft ==
    (prog = "dates" /\ pc = "done" /\ RewriteAndLaterOk) => backupRefs = {}

\* every tool invocation that failed is one of cmds
OnlyFailed(cmds) == \A j \in 1..Len(calls) : ~calls[j].ok => calls[j].cmd \in cmds

\* git stash pop failed, if it did, on the state the run had left: the
\* failed command changes nothing, so the state at the end still refuses it
PopRefusedByState == Failed("stash pop") => StashPopFails

(* C11: on every exit path of a Reconstruction run, the modifications the *)
(* run set aside at its start are restored when the process terminates.   *)
(* Stated of the exit path of a commit-creation failure, in the runs in   *)
(* which git commit is the only invocation that fails for a reason        *)
(* outside the state of the repository.                                   *)
C11_RestoredOnEveryExit ==
    (/\ prog = "history" /\ pc = "done" /\ SetAside
     /\ Failed("commit") /\ OnlyFailed({"commit", "stash pop"})
     /\ PopRefusedByState) => Restored

C13_CleanupFailureNonFatal ==
    (/\ prog = "dates" /\ pc = "done" /\ Succeeded("filter-branch")
     /\ (Failed("for-each-ref") \/ Failed("update-ref -d"))
     /\ OnlyFailed({"for-each-ref", "update-ref -d", "stash pop"})
     /\ PopRefusedByState) =>
        /\ result = "true"
        /\ stashed => Succeeded("stash pop")
        /\ scriptFile = NoFile

\* the calendar, as the claim about the formatter reads it: the month
\* abbreviations, and the weekday of a date by Zeller's congruence
CalendarMonths == [m \in 1..12 |->
    CASE m = 1 -> "Jan" [] m = 2 -> "Feb" [] m = 3 -> "Mar" [] m = 4 -> "Apr"
      [] m = 5 -> "May" [] m = 6 -> "Jun" [] m = 7 -> "Jul" [] m = 8 -> "Aug"
      [] m = 9 -> "Sep" [] m = 10 -> "Oct" [] m = 11 -> "Nov" [] m = 12 -> "Dec"]
\* Zeller: 0 is Saturday; January and February count as months 13 and 14
\* of the year before
Zeller(year, month, day) ==
    LET m == IF month < 3 THEN month + 12 ELSE month
        y == IF month < 3 THEN year - 1 ELSE year
        K == y % 100
        J == y \div 100
    IN  (day + ((13 * (m + 1)) \div 5) + K + (K \div 4) + (J \div 4) + 5 * J) % 7
CalendarWeekday(year, month, day) ==
    <<"Sat", "Sun", "Mon", "Tue", "Wed", "Thu", "Fri">>[Zeller(year, month, day) + 1]
Number(digits) == IF Len(digits) = 1 THEN digits[1] ELSE 10 * digits[1] + digits[2]

C15_OneRecordPerCommit ==
    (prog = "history" /\ Succeeded("log")) =>
        /\ Len(commits) = NOrig
        /\ \A i \in 1..NOrig :
              /\ i <= Len(commits)
              /\ commits[i].hash = HashOf(i)
              /\ <<commits[i].message>> = start.objects[i].message.summary

(* C16: in Reconstruction, the new commit made at position i carries the  *)
(* summary of original commit i as its message and the i-th generated     *)
(* timestamp as author date and as committer date, and the timestamps     *)
(* along the new chain do not decrease from the oldest commit on. Stated  *)
(* of the runs that began on a clean working tree and in which every tool *)
(* invocation succeeded.                                                  *)
C16_MessagesAndDates ==
    (ReconSuccess /\ CleanStart /\ AllCallsOk) =>
        \A i \in 1..NOrig :
            /\ i <= Len(NewChain) /\ i <= Len(new_dates)
            /\ objects[NewChain[i]].message.summary = start.objects[i].message.summary
            /\ objects[NewChain[i]].author_date = format_date_for_git(new_dates[i])
            /\ objects[NewChain[i]].committer_date = format_date_for_git(new_dates[i])
            /\ i > 1 => new_dates[i - 1] <= new_dates[i]

(* C17: in both strategies the preview of the first five date assignments *)
(* is printed before the run changes anything: before the script file is  *)
(* written, before git stash push sets anything aside, before a branch is *)
(* made and before the rewrite.                                           *)
C17_PreviewBeforeMutation ==
    \A j \in 1..Len(calls) :
        calls[j].changed => \E k \in 1..(j - 1) : calls[k].cmd = "preview"

(* C18: a Metadata Filter run pops only a stash entry that the same run   *)
(* pushed: from every starting state, a clean working tree and a stash    *)
(* stack with earlier entries included, no restore is attempted when      *)
(* nothing was set aside, and the stash stack at exit is the stash stack  *)
(* at entry. Stated of the runs in which every tool invocation succeeded. *)
C18_PopsOnlyOwnEntry ==
    (prog = "dates" /\ pc = "done" /\ AllCallsOk) =>
        /\ Called("stash pop") => SetAside
        /\ stash = start.stash

=============================================================================
